---- MODULE Spec2Model ----
(***************************************************************************)
(* Model of app.py (JAXA Earth Soundscape): the normalizer, the date       *)
(* window, the coordinate fallback, the multi-endpoint retrieval loop, the *)
(* landscape compositor and the audio synthesizer.                         *)
(*                                                                         *)
(* Numbers.  Measurements are fixed-point integers in thousandths          *)
(* (ndvi 0.8 = 800, lst -5.0 = -5000, precip 480.0 = 480000).  A value in  *)
(* [0,1] produced by normalize is an exact reduced fraction <<n, d>>.      *)
(* Python's int() and numpy's astype(int16) truncate toward zero.          *)
(***************************************************************************)
EXTENDS Integers, Sequences, FiniteSets, TLC

VARIABLES
    pcall,      \* the pure call under test: function name and arguments
    pret,       \* its outcome: pending, returned value, or raised exception
    req,        \* per request: the generation call it runs, locals, output
    rng,        \* per generator cell: the numpy Generator a call allocated
    fin,        \* fetch_satellite_data: its arguments and environment
    fst         \* fetch_satellite_data: its locals, loop position, result

vars == <<pcall, pret, req, rng, fin, fst>>

(***************************************************************************)
(* Arithmetic helpers                                                      *)
(***************************************************************************)
Abs(x) == IF x < 0 THEN -x ELSE x

Max(a, b) == IF a >= b THEN a ELSE b

\* Python int(x) for x = a/b, b > 0: truncation toward zero.
TruncDiv(a, b) == IF a >= 0 THEN a \div b ELSE -((-a) \div b)

RECURSIVE GCD(_, _)
GCD(a, b) == IF b = 0 THEN a ELSE GCD(b, a % b)

\* The fraction n/d (d > 0, n >= 0) in lowest terms.
Frac(n, d) == LET g == GCD(n, d) IN <<n \div g, d \div g>>

(***************************************************************************)
(* normalize (app.py 36-39)                                                *)
(***************************************************************************)
NormalizeNoClamp(value, lower, upper) ==
    IF upper <= lower THEN <<0, 1>>
    ELSE IF value <= lower THEN <<0, 1>>
    ELSE Frac(value - lower, upper - lower)

\* if upper <= lower: return 0.0
\* return max(0.0, min(1.0, (value - lower) / (upper - lower)))
normalize(value, lower, upper) ==
    IF upper <= lower THEN <<0, 1>>
    ELSE IF value - lower <= 0 THEN <<0, 1>>                \* max(0.0, .)
    ELSE IF value - lower >= upper - lower THEN <<1, 1>>    \* min(1.0, .)
    ELSE Frac(value - lower, upper - lower)

(***************************************************************************)
(* Dates: datetime.date, calendar.monthrange, date.isoformat               *)
(***************************************************************************)
MINYEAR == 1

MAXYEAR == 9999

isleap(year) == year % 4 = 0 /\ (year % 100 # 0 \/ year % 400 = 0)

mdays == <<31, 28, 31, 30, 31, 30, 31, 31, 30, 31, 30, 31>>

MonthLengthNoLeap(year, month) == mdays[month]

\* calendar.monthrange(year, month)[1]
MonthLength(year, month) ==
    mdays[month] + (IF month = 2 /\ isleap(year) THEN 1 ELSE 0)

\* date(year, month, day) raises ValueError outside MINYEAR..MAXYEAR.
DateValid(year, month, day) ==
    /\ year >= MINYEAR /\ year <= MAXYEAR
    /\ month >= 1 /\ month <= 12
    /\ day >= 1 /\ day <= MonthLength(year, month)

DigitChars == <<"0", "1", "2", "3", "4", "5", "6", "7", "8", "9">>

Digit(n) == DigitChars[n + 1]

\* date.isoformat(): "%04d-%02d-%02d", as a sequence of characters.
isoformat(year, month, day) ==
    << Digit((year \div 1000) % 10), Digit((year \div 100) % 10),
       Digit((year \div 10) % 10), Digit(year % 10), "-",
       Digit((month \div 10) % 10), Digit(month % 10), "-",
       Digit((day \div 10) % 10), Digit(day % 10) >>

Raised(exc) == [status |-> "raised", exc |-> exc, val |-> <<>>]

Returned(v) == [status |-> "ok", exc |-> "", val |-> v]

Pending == [status |-> "pending", exc |-> "", val |-> <<>>]

StepBackTwo(year, month) ==
    IF month <= 2 THEN <<year - 1, month + 10>> ELSE <<year, month - 2>>

\* if month == 1: year -= 1; month = 12  else: month -= 1
StepBack(year, month) ==
    IF month = 1 THEN <<year - 1, 12>> ELSE <<year, month - 1>>

\* previous_month_range(target_month): (start, end) ISO strings, or the
\* ValueError of date() when the previous month is before MINYEAR.
previous_month_range(target) ==
    LET ym == StepBack(target.year, target.month)
        last_day == MonthLength(ym[1], ym[2])
    IN  IF ~DateValid(ym[1], ym[2], 1) \/ ~DateValid(ym[1], ym[2], last_day)
        THEN Raised("ValueError")
        ELSE Returned(<< isoformat(ym[1], ym[2], 1),
                         isoformat(ym[1], ym[2], last_day) >>)

(***************************************************************************)
(* numpy.random.default_rng / Generator.  The PCG64 stream is abstracted   *)
(* as a linear congruential generator over 0..RngModulus-1; what the model *)
(* keeps of it is that a Generator is a mutable object whose stream is     *)
(* fixed by its seed and whose state every draw advances.                  *)
(***************************************************************************)
RngModulus == 4096

RngMul == 3277

RngInc == 1013

NoGen == [live |-> FALSE, state |-> 0]

\* default_rng(seed) raises ValueError for a negative seed.
SeedValid(seed) == seed >= 0

default_rng(seed) == [live |-> TRUE, state |-> seed % RngModulus]

\* The affine map of k successive draws, <<a, c>>: s -> (a*s + c) % modulus.
RECURSIVE LcgPow(_)
LcgPow(k) ==
    IF k = 0 THEN <<1, 0>>
    ELSE IF k % 2 = 1
         THEN LET h == LcgPow(k - 1)
              IN  << (RngMul * h[1]) % RngModulus,
                     (RngMul * h[2] + RngInc) % RngModulus >>
         ELSE LET h == LcgPow(k \div 2)
              IN  << (h[1] * h[1]) % RngModulus,
                     (h[1] * h[2] + h[2]) % RngModulus >>

\* The maps of the first draws, computed once.
DrawMaps == [i \in 1..1024 |-> LcgPow(i)]

\* The generator's state after its i-th draw (i >= 1) from g.
Draw(g, i) ==
    LET f == IF i \in DOMAIN DrawMaps THEN DrawMaps[i] ELSE LcgPow(i)
    IN  (f[1] * g.state + f[2]) % RngModulus

Advance(g, n) == [live |-> TRUE, state |-> IF n = 0 THEN g.state ELSE Draw(g, n)]

\* rng.uniform(low, high) from the draw s: low + (high - low) * s / modulus,
\* in the caller's unit (truncated to it).
uniform(s, low, high) == low + ((high - low) * s) \div RngModulus

\* rng.normal(0, 1) from the draw s, in thousandths: the octile medians of
\* the standard normal distribution.
NormalTable == <<-1534, -887, -489, -157, 157, 489, 887, 1534>>

normal(s) == NormalTable[(s * 8) \div RngModulus + 1]

(***************************************************************************)
(* Requests: each runs one generation call at a time.  A call allocates    *)
(* its generator in the cell Gen(r) and draws from that cell only.         *)
(***************************************************************************)
Requests == {"r1", "r2"}

SharedGen(r) == "r1"

\* rng = np.random.default_rng(...): a local of the call, one per request.
Gen(r) == r

NoOut == [kind |-> "none"]

Idle ==
    [pc |-> "idle", fn |-> "none", args |-> <<>>, exc |-> "",
     loc |-> NoOut, out |-> NoOut]

(***************************************************************************)
(* fallback_satellite_values (app.py 42-49); values in thousandths.        *)
(***************************************************************************)
\* seed = int((abs(lat) * 1000) + (abs(lon) * 1000)); lat, lon in thousandths
FallbackSeed(lat, lon) == Abs(lat) + Abs(lon)

FallbackDrawsWide(g) ==
    [ndvi |-> uniform(Draw(g, 1), 0, 1000),
     lst |-> uniform(Draw(g, 2), 5000, 40000),
     precip |-> uniform(Draw(g, 3), 20000, 450000)]

\* {"ndvi": uniform(0.1, 0.9), "lst": uniform(5.0, 40.0),
\*  "precip": uniform(20.0, 450.0)}, drawn in this order.
FallbackDraws(g) ==
    [ndvi |-> uniform(Draw(g, 1), 100, 900),
     lst |-> uniform(Draw(g, 2), 5000, 40000),
     precip |-> uniform(Draw(g, 3), 20000, 450000)]

(***************************************************************************)
(* create_space_landscape (app.py 122-185).  The image is modelled by the  *)
(* drawing commands that produce it, in z-order; PIL renders them          *)
(* deterministically.                                                      *)
(***************************************************************************)
width == 720

height == 1280

NumStars == 220

\* int(c + f * k) for the fraction f = <<n, d>> and integers c, k >= 0
IntAffine(c, f, k) == (c * f[2] + k * f[1]) \div f[2]

ndvi_norm(ndvi) == normalize(ndvi, 0, 1000)

lst_norm(lst) == normalize(lst, -10000, 45000)

precip_norm(precip) == normalize(precip, 0, 500000)

\* int(ndvi_n * 1000 + precip_n * 2000 + lst_n * 3000)
LandscapeSeed(ndvi_n, lst_n, precip_n) ==
    LET d == ndvi_n[2] * lst_n[2] * precip_n[2]
    IN  ( 1000 * ndvi_n[1] * lst_n[2] * precip_n[2]
        + 2000 * precip_n[1] * ndvi_n[2] * lst_n[2]
        + 3000 * lst_n[1] * ndvi_n[2] * precip_n[2] ) \div d

\* ground_y = int(height * 0.62)
ground_y == (height * 62) \div 100

\* x = int(uniform(0, width)); y = int(uniform(0, height * 0.55))
\* size = int(uniform(1, 3)); color = (255, 255, int(uniform(180, 255)))
Star(g, k) ==
    << uniform(Draw(g, 4 * k - 3), 0, width),
       uniform(Draw(g, 4 * k - 2), 0, (height * 55) \div 100),
       uniform(Draw(g, 4 * k - 1), 1, 3),
       uniform(Draw(g, 4 * k), 180, 255) >>

WaterCountInverse(precip_n) == IntAffine(1, <<precip_n[2] - precip_n[1], precip_n[2]>>, 5)

\* water_count = int(1 + precip_n * 5)
WaterCount(precip_n) == IntAffine(1, precip_n, 5)

\* x1 = int((i / max(1, water_count)) * width * 0.9)
\* x2 = int(x1 + width * 0.35): width * 0.35 is the double 251.99999999999997,
\*      and the sum rounds up to x1 + 252 from 256 on
\* y1 = int(ground_y + 80 + i * 30); y2 = y1 + int(90 + precip_n * 90)
WaterShape(i, water_count, precip_n) ==
    LET x1 == (i * ((width * 9) \div 10)) \div Max(1, water_count)
        x2 == IF x1 < 5 THEN x1 + 251 ELSE x1 + 252
        y1 == ground_y + 80 + i * 30
        y2 == y1 + IntAffine(90, precip_n, 90)
    IN  <<x1, y1, x2, y2>>

\* tx = int(uniform(20, width - 20)); ty = int(uniform(ground_y - 80, height - 80))
Tree(g, k) ==
    << uniform(Draw(g, 4 * NumStars + 2 * k - 1), 20, width - 20),
       uniform(Draw(g, 4 * NumStars + 2 * k), ground_y - 80, height - 80) >>

\* The drawing commands of one call whose generator is g.
Scene(ndvi, lst, precip, g) ==
    LET ndvi_n == ndvi_norm(ndvi)
        lst_n == lst_norm(lst)
        precip_n == precip_norm(precip)
        base_brightness == IntAffine(40, lst_n, 130)
        water_count == WaterCount(precip_n)
        tree_count == IntAffine(4, ndvi_n, 26)
    IN  [kind |-> "image",
         size |-> <<width, height>>,
         sky_top |-> << 25 + IntAffine(0, lst_n, 40), 22 + IntAffine(0, lst_n, 35),
                        70 + IntAffine(0, lst_n, 60) >>,
         sky_bottom |-> <<250, 245, 180 + IntAffine(0, lst_n, 50)>>,
         stars |-> [k \in 1..NumStars |-> Star(g, k)],
         ground |-> <<ground_y, 80, 60 + IntAffine(0, ndvi_n, 80), 40>>,
         water |-> [j \in 1..water_count |-> WaterShape(j - 1, water_count, precip_n)],
         trees |-> [k \in 1..tree_count |-> Tree(g, k)],
         crown_r |-> IntAffine(18, ndvi_n, 14),
         crown_green |-> 110 + IntAffine(0, ndvi_n, 120),
         \* if lst_n > 0.5: glow alpha int(70 * lst_n)
         glow |-> IF 2 * lst_n[1] > lst_n[2] THEN IntAffine(0, lst_n, 70) ELSE -1,
         \* px, py = int(width * 0.78), int(height * 0.2); pr = int(80 + bb * 0.2)
         planet |-> << (width * 78) \div 100, (height * 2) \div 10,
                       (80 * 5 + base_brightness) \div 5 >>]

\* The number of draws one landscape call consumes.
SceneDraws(ndvi) == 4 * NumStars + 2 * IntAffine(4, ndvi_norm(ndvi), 26)

(***************************************************************************)
(* synthesize_music (app.py 188-223).  Signal values are fixed-point:      *)
(* sines in thousandths, the mixed signal in millionths, the peak (which   *)
(* carries the 1e-8 epsilon) in units of 1e-8.  The model evaluates the    *)
(* buffer on every Stride-th sample index.                                 *)
(***************************************************************************)
sr == 44100

Stride == 3001

\* The sample indices the model evaluates, of the duration_sec * sr samples
\* of t = np.linspace(0, duration_sec, duration_sec * sr, endpoint=False).
NumSamples(duration_sec) == ((duration_sec * sr - 1) \div Stride) + 1

SampleIndex(j) == (j - 1) * Stride

\* np.sin(2 * pi * freq * t[k]) in thousandths (Bhaskara's approximation
\* 16x(pi-x) / (5pi^2 - 4x(pi-x)) on each half turn).
Sin1000(freq, k) ==
    LET half == sr \div 2
        p == (freq * k) % sr
        x == IF p < half THEN p ELSE p - half
        q == x * (half - x)
        mag == (4 * q) \div ((5 * ((half * half) \div 4) - q) \div 1000)
    IN  IF p < half THEN mag ELSE -mag

\* <<q, r>> with a * b = q * c + r and 0 <= r < c, for 0 <= a, 0 < c, without
\* forming the product a * b.
RECURSIVE MulDivMod(_, _, _)
MulDivMod(a, b, c) ==
    IF b = 0 THEN <<0, 0>>
    ELSE IF b % 2 = 1
         THEN LET h == MulDivMod(a, b - 1, c)
                  r == h[2] + (a % c)
              IN  <<h[1] + (a \div c) + (r \div c), r % c>>
         ELSE LET h == MulDivMod(a, b \div 2, c)
                  r == 2 * h[2]
              IN  <<2 * h[1] + (r \div c), r % c>>

\* acoustic[k], in millionths:
\* (0.6 sin(220) + 0.3 sin(330) + 0.2 sin(440)) * (0.2 + 0.8 * ndvi_n)
Acoustic(ndvi_n, k) ==
    TruncDiv( (6 * Sin1000(220, k) + 3 * Sin1000(330, k) + 2 * Sin1000(440, k))
                * 10 * (2 * ndvi_n[2] + 8 * ndvi_n[1]),
              ndvi_n[2] )

\* np.sign(np.sin(2 * pi * synth_freq * t[k])), synth_freq = 110 + precip_n * 330
SynthSign(precip_n, k) ==
    LET period == precip_n[2] * sr
        p == MulDivMod(110 * precip_n[2] + 330 * precip_n[1], k, period)[2]
    IN  IF p = 0 \/ 2 * p = period THEN 0
        ELSE IF 2 * p < period THEN 1 ELSE -1

\* synth[k], in millionths: sign * (0.15 + 0.85 * precip_n)
Synth(precip_n, k) ==
    SynthSign(precip_n, k)
        * (((15 * precip_n[2] + 85 * precip_n[1]) * 10000) \div precip_n[2])

\* tempo = 75 + int(lst_n * 95)
Tempo(lst_n) == 75 + IntAffine(0, lst_n, 95)

\* gate[k], in hundredths: 0.35 + 0.65 * (sin(2 pi (1 / beat_sec) t[k]) > 0)
Gate(lst_n, k) ==
    LET p == (Tempo(lst_n) * k) % (60 * sr)
    IN  IF p > 0 /\ p < 30 * sr THEN 100 ELSE 35

\* The noise amplitude factor 0.04 * precip_n, as a fraction.
RainAmp(precip_n) == Frac(4 * precip_n[1], 100 * precip_n[2])

\* rain_noise[k], in millionths: the (k+1)-th normal draw * 0.04 * precip_n
RainNoise(precip_n, g, k) ==
    LET amp == RainAmp(precip_n)
    IN  TruncDiv(normal(Draw(g, k + 1)) * 1000 * amp[1], amp[2])

\* audio[k] = (acoustic + synth + rain_noise) * gate, in millionths
Mix(ndvi_n, lst_n, precip_n, g, k) ==
    TruncDiv( (Acoustic(ndvi_n, k) + Synth(precip_n, k) + RainNoise(precip_n, g, k))
                * Gate(lst_n, k),
              100 )

PeakUnit(audio) == 100000000

\* np.max(np.abs(audio) + 1e-8), in units of 1e-8
Peak(audio) ==
    CHOOSE v \in {Abs(audio[j]) * 100 + 1 : j \in DOMAIN audio} :
        \A j \in DOMAIN audio : Abs(audio[j]) * 100 + 1 <= v

\* The integer part of (audio[k] / peak) * 32767, before the int16 cast.
Scaled(x, pk) ==
    LET q == MulDivMod(Abs(x) * 100, 32767, pk)[1]
    IN  IF x < 0 THEN -q ELSE q

\* .astype(np.int16): two's-complement wrap of an integer outside int16.
ToInt16(x) == ((x + 32768) % 65536) - 32768

\* audio = (acoustic + synth + rain_noise) * gate over the sample indices
AudioBuffer(t, g) ==
    <<>> \o [j \in 1..NumSamples(t[4]) |->
               Mix(ndvi_norm(t[1]), lst_norm(t[2]), precip_norm(t[3]), g,
                   SampleIndex(j))]

\* audio / np.max(np.abs(audio) + 1e-8) * 32767, truncated to integers
Quantize(buf) ==
    LET top == Peak(buf) IN <<>> \o [i \in DOMAIN buf |-> Scaled(buf[i], top)]

\* (audio * 32767).astype(np.int16)
Cast16(quant) == <<>> \o [m \in DOMAIN quant |-> ToInt16(quant[m])]

\* The locals and the returned WAV container (mono, 2 bytes per sample, sr
\* frames per second) of one call, from its pre-cast samples.
SynthPack(t, buf, quant) ==
    [loc |-> [kind |-> "synth",
              tempo |-> Tempo(lst_norm(t[2])),
              rain_amp |-> RainAmp(precip_norm(t[3])),
              peak |-> Peak(buf),
              scaled |-> quant],
     out |-> [kind |-> "wav", nchannels |-> 1, sampwidth |-> 2, framerate |-> sr,
              frames |-> Cast16(quant)]]

SynthQuantized(t, buf) == SynthPack(t, buf, Quantize(buf))

SynthResult(t, g) == SynthQuantized(t, AudioBuffer(t, g))

(***************************************************************************)
(* The generation calls of the requests                                    *)
(***************************************************************************)
MaxDuration == 2

NdviInputs == {100, 800}

LstInputs == {-10000, -5000, 30000}

PrecipInputs == {0, 10000, 480000}

\* The measurement triplets the calls are given: the domain's corners and
\* the two scenarios, and two triplets outside the expected domain.
Triplets ==
    (NdviInputs \X LstInputs \X PrecipInputs)
        \cup {<<1500, 50000, 600000>>, <<0, -10000, 500000>>}

Coordinates == {<<35680, 139760>>, <<-35680, 139760>>, <<0, 0>>,
                <<-90000, -180000>>, <<90000, 180000>>, <<-33870, 151210>>}

Running(fn, args) ==
    [pc |-> "running", fn |-> fn, args |-> args, exc |-> "",
     loc |-> NoOut, out |-> NoOut]

\* create_space_landscape, lines 122-143: through the generator's allocation.
LandscapeBegin(r, t) ==
    /\ req[r].pc = "idle"
    /\ req' = [req EXCEPT ![r] = Running("landscape", t)]
    /\ rng' = [rng EXCEPT ![Gen(r)] =
                 default_rng(LandscapeSeed(ndvi_norm(t[1]), lst_norm(t[2]),
                                           precip_norm(t[3])))]
    /\ UNCHANGED <<pcall, pret, fin, fst>>

\* create_space_landscape, lines 144-185: the draws and the returned image.
LandscapeEnd(r) ==
    /\ req[r].pc = "running" /\ req[r].fn = "landscape"
    /\ rng[Gen(r)].live
    /\ LET a == req[r].args
       IN  /\ req' = [req EXCEPT ![r].pc = "done",
                                 ![r].out = Scene(a[1], a[2], a[3], rng[Gen(r)])]
           /\ rng' = [rng EXCEPT ![Gen(r)] = Advance(rng[Gen(r)], SceneDraws(a[1]))]
    /\ UNCHANGED <<pcall, pret, fin, fst>>

\* int((ndvi + lst + precip) * 1000)
SynthSeed(t) == t[1] + t[2] + t[3]

\* synthesize_music, lines 188-210: through the generator's allocation, which
\* raises ValueError for a negative seed.
SynthBegin(r, t, duration_sec) ==
    /\ req[r].pc = "idle"
    /\ IF SeedValid(SynthSeed(t))
       THEN /\ req' = [req EXCEPT ![r] = Running("synth", t \o <<duration_sec>>)]
            /\ rng' = [rng EXCEPT ![Gen(r)] = default_rng(SynthSeed(t))]
       ELSE /\ req' = [req EXCEPT ![r] =
                         [pc |-> "error", fn |-> "synth",
                          args |-> t \o <<duration_sec>>, exc |-> "ValueError",
                          loc |-> NoOut, out |-> NoOut]]
            /\ UNCHANGED rng
    /\ UNCHANGED <<pcall, pret, fin, fst>>

SynthDone(call, res) == [call EXCEPT !.pc = "done", !.loc = res.loc, !.out = res.out]

\* synthesize_music, lines 211-223: noise, mix, peak normalization, int16
\* quantization, WAV encoding.
SynthEnd(r) ==
    /\ req[r].pc = "running" /\ req[r].fn = "synth"
    /\ rng[Gen(r)].live
    /\ req' = [req EXCEPT ![r] = SynthDone(req[r], SynthResult(req[r].args, rng[Gen(r)]))]
    /\ rng' = [rng EXCEPT ![Gen(r)] = Advance(rng[Gen(r)], req[r].args[4] * sr)]
    /\ UNCHANGED <<pcall, pret, fin, fst>>

\* fallback_satellite_values, lines 43-44
FallbackBegin(r, c) ==
    /\ req[r].pc = "idle"
    /\ SeedValid(FallbackSeed(c[1], c[2]))
    /\ req' = [req EXCEPT ![r] = Running("fallback", c)]
    /\ rng' = [rng EXCEPT ![Gen(r)] = default_rng(FallbackSeed(c[1], c[2]))]
    /\ UNCHANGED <<pcall, pret, fin, fst>>

\* fallback_satellite_values, lines 45-49
FallbackEnd(r) ==
    /\ req[r].pc = "running" /\ req[r].fn = "fallback"
    /\ rng[Gen(r)].live
    /\ req' = [req EXCEPT ![r].pc = "done",
                          ![r].out = [kind |-> "triplet",
                                      val |-> FallbackDraws(rng[Gen(r)])]]
    /\ rng' = [rng EXCEPT ![Gen(r)] = Advance(rng[Gen(r)], 3)]
    /\ UNCHANGED <<pcall, pret, fin, fst>>

\* The call has returned (or raised) to its caller: its locals, the
\* generator among them, are gone.
Return(r) ==
    /\ req[r].pc \in {"done", "error"}
    /\ req' = [req EXCEPT ![r] = Idle]
    /\ rng' = [rng EXCEPT ![Gen(r)] = NoGen]
    /\ UNCHANGED <<pcall, pret, fin, fst>>

NoPure == [fn |-> "none", args |-> <<>>]

NoFetchIn == [kind |-> "none"]

NoFetchSt == [pc |-> "none"]

Init ==
    /\ req = [r \in Requests |-> Idle]
    /\ rng = [r \in Requests |-> NoGen]
    /\ pcall = NoPure /\ pret = Pending
    /\ fin = NoFetchIn /\ fst = NoFetchSt

Next ==
    \E r \in Requests :
        \/ \E t \in Triplets : LandscapeBegin(r, t)
        \/ LandscapeEnd(r)
        \/ \E t \in Triplets, d \in 1..MaxDuration : SynthBegin(r, t, d)
        \/ SynthEnd(r)
        \/ \E c \in Coordinates : FallbackBegin(r, c)
        \/ FallbackEnd(r)
        \/ Return(r)

Spec == Init /\ [][Next]_vars

(***************************************************************************)
(* Properties of the generation calls (specification Spec)                 *)
(***************************************************************************)
Done(r, fn) == req[r].pc = "done" /\ req[r].fn = fn

\* A measurement triplet inside its expected domain, with a positive duration.
WellFormed(a) ==
    /\ a[1] >= 0 /\ a[1] <= 1000
    /\ a[2] >= -10000 /\ a[2] <= 45000
    /\ a[3] >= 0 /\ a[3] <= 500000
    /\ a[4] > 0

\* C1: synthesize_music is total on well-formed triplets with a positive
\* duration: no such call ends in an error state, the construction of the
\* noise generator from int((ndvi + lst + precip) * 1000) included.
C1_SynthTotal ==
    \A r \in Requests :
        (req[r].fn = "synth" /\ WellFormed(req[r].args)) => req[r].pc # "error"

\* C4: two generation calls of the same function with identical arguments
\* return identical output, whatever other calls ran before them or are
\* interleaved with them.
C4_Deterministic ==
    \A r1, r2 \in Requests :
        ( /\ req[r1].pc = "done" /\ req[r2].pc = "done"
          /\ req[r1].fn \in {"landscape", "synth"}
          /\ req[r1].fn = req[r2].fn
          /\ req[r1].args = req[r2].args )
        => req[r1].out = req[r2].out

\* Two distinct requests hold the results of the same landscape call.
C4_Witness ==
    /\ Done("r1", "landscape") /\ Done("r2", "landscape")
    /\ req["r1"].args = req["r2"].args
    /\ req["r1"].out.kind = "image"
    /\ rng["r1"].live /\ rng["r2"].live

MaxAbs(frames) ==
    CHOOSE v \in {Abs(frames[i]) : i \in DOMAIN frames} :
        \A i \in DOMAIN frames : Abs(frames[i]) <= v

\* C5: whenever synthesize_music produces audio, the int16 conversion does
\* not wrap (every sample is the integer it was computed as, within
\* -32768..32767) and the largest absolute sample is within 1 of 32767.
C5_AudioBounds ==
    \A r \in Requests :
        Done(r, "synth") =>
            /\ \A i \in DOMAIN req[r].out.frames :
                   /\ req[r].out.frames[i] >= -32768
                   /\ req[r].out.frames[i] <= 32767
                   /\ req[r].out.frames[i] = req[r].loc.scaled[i]
            /\ MaxAbs(req[r].out.frames) >= 32767 - 1
            /\ MaxAbs(req[r].out.frames) <= 32767

\* A finished synthesis whose buffer holds samples of both signs.
C5_Witness ==
    \E r \in Requests :
        /\ Done(r, "synth")
        /\ req[r].args[3] > 0
        /\ \E i \in DOMAIN req[r].out.frames : req[r].out.frames[i] < -1000
        /\ \E i \in DOMAIN req[r].out.frames : req[r].out.frames[i] > 1000

\* C6: fallback_satellite_values returns ndvi in [0.1, 0.9], lst in
\* [5.0, 40.0] and precip in [20.0, 450.0], drawn in that order from a
\* generator seeded with int(|lat| * 1000 + |lon| * 1000), and two calls with
\* identical coordinates return identical triplets.
C6_Fallback ==
    /\ \A r \in Requests :
           Done(r, "fallback") =>
               LET v == req[r].out.val
                   g0 == default_rng(Abs(req[r].args[1]) + Abs(req[r].args[2]))
               IN  /\ v.ndvi >= 100 /\ v.ndvi <= 900
                   /\ v.lst >= 5000 /\ v.lst <= 40000
                   /\ v.precip >= 20000 /\ v.precip <= 450000
                   /\ v.ndvi = uniform(Draw(g0, 1), 100, 900)
                   /\ v.lst = uniform(Draw(g0, 2), 5000, 40000)
                   /\ v.precip = uniform(Draw(g0, 3), 20000, 450000)
    /\ \A r1, r2 \in Requests :
           (Done(r1, "fallback") /\ Done(r2, "fallback")
               /\ req[r1].args = req[r2].args)
           => req[r1].out = req[r2].out

\* Both requests hold the fallback triplet of the same southern coordinates.
C6_Witness ==
    /\ Done("r1", "fallback") /\ Done("r2", "fallback")
    /\ req["r1"].args = req["r2"].args
    /\ req["r1"].args[1] < 0
    /\ req["r1"].out.val.ndvi # req["r1"].out.val.lst \div 50

LeqFrac(f1, f2) == f1[1] * f2[2] <= f2[1] * f1[2]

\* C9: for fixed ndvi and lst and precip1 <= precip2, the landscape of
\* precip2 has at least as many water shapes, each shape's vertical extent
\* and horizontal span are not smaller, and the noise amplitude factor of
\* the synthesis is not smaller.
C9_PrecipMonotone ==
    \A r1, r2 \in Requests :
        ( /\ req[r1].pc = "done" /\ req[r2].pc = "done"
          /\ req[r1].fn = req[r2].fn
          /\ req[r1].fn \in {"landscape", "synth"}
          /\ req[r1].args[1] = req[r2].args[1]
          /\ req[r1].args[2] = req[r2].args[2]
          /\ req[r1].args[3] <= req[r2].args[3] )
        => IF req[r1].fn = "landscape"
           THEN /\ Len(req[r1].out.water) <= Len(req[r2].out.water)
                /\ Len(req[r1].out.water) >= 1
                /\ \A i \in 1..Len(req[r1].out.water) :
                       LET w1 == req[r1].out.water[i]
                           w2 == req[r2].out.water[i]
                       IN  /\ w1[4] - w1[2] <= w2[4] - w2[2]
                           /\ w1[3] - w1[1] <= w2[3] - w2[1]
           ELSE LeqFrac(req[r1].loc.rain_amp, req[r2].loc.rain_amp)

\* Two landscapes that differ in precipitation only; the wetter one has
\* strictly more and strictly taller water shapes.
C9_Witness ==
    /\ Done("r1", "landscape") /\ Done("r2", "landscape")
    /\ req["r1"].args[1] = req["r2"].args[1]
    /\ req["r1"].args[2] = req["r2"].args[2]
    /\ req["r1"].args[3] < req["r2"].args[3]
    /\ Len(req["r1"].out.water) < Len(req["r2"].out.water)
    /\ req["r1"].out.water[1][4] - req["r1"].out.water[1][2]
         < req["r2"].out.water[1][4] - req["r2"].out.water[1][2]

(***************************************************************************)
(* Pure calls: normalize and previous_month_range on drawn arguments       *)
(* (specification SpecPure)                                                *)
(***************************************************************************)
NormalizeValues == {-20000, -10000, 0, 250, 500, 1000, 17500, 45000, 250000,
                    500000, 600000}

NormalizeLowers == {-10000, 0, 1000, 5000}

NormalizeUppers == {0, 1000, 45000, 500000}

TargetYears == {MINYEAR, 2, 1900, 2000, 2023, 2024, 2025, MAXYEAR}

TargetDates ==
    {<<y, m, d>> \in TargetYears \X (1..12) \X {1, 15, 28, 29, 30, 31} :
        DateValid(y, m, d)}

PureCalls ==
    {[fn |-> "normalize", args |-> a] :
        a \in NormalizeValues \X NormalizeLowers \X NormalizeUppers}
    \cup {[fn |-> "previous_month_range", args |-> a] : a \in TargetDates}

InitPure ==
    /\ pcall \in PureCalls
    /\ pret = Pending
    /\ req = [r \in Requests |-> Idle]
    /\ rng = [r \in Requests |-> NoGen]
    /\ fin = NoFetchIn /\ fst = NoFetchSt

CallNormalize ==
    /\ pcall.fn = "normalize" /\ pret.status = "pending"
    /\ pret' = Returned(normalize(pcall.args[1], pcall.args[2], pcall.args[3]))
    /\ UNCHANGED <<pcall, req, rng, fin, fst>>

CallPreviousMonthRange ==
    /\ pcall.fn = "previous_month_range" /\ pret.status = "pending"
    /\ pret' = previous_month_range([year |-> pcall.args[1],
                                     month |-> pcall.args[2],
                                     day |-> pcall.args[3]])
    /\ UNCHANGED <<pcall, req, rng, fin, fst>>

NextPure == CallNormalize \/ CallPreviousMonthRange

SpecPure == InitPure /\ [][NextPure]_vars

\* C3: normalize returns 0.0 whenever upper <= lower; otherwise the result
\* is (value - lower) / (upper - lower) clamped to [0, 1]: within [0, 1],
\* 0.0 at and below lower, 1.0 at and above upper.
C3_Normalize ==
    (pcall.fn = "normalize" /\ pret.status = "ok") =>
        LET value == pcall.args[1]
            lower == pcall.args[2]
            upper == pcall.args[3]
            n == pret.val[1]
            d == pret.val[2]
        IN  /\ d > 0 /\ n >= 0 /\ n <= d
            /\ upper <= lower => n = 0
            /\ (lower < upper /\ value <= lower) => n = 0
            /\ (lower < upper /\ value >= upper) => n = d
            /\ (lower < upper /\ lower < value /\ value < upper)
                   => n * (upper - lower) = d * (value - lower)

\* normalize has returned a value strictly inside (0, 1).
C3_Witness ==
    /\ pcall.fn = "normalize" /\ pret.status = "ok"
    /\ pcall.args = <<17500, -10000, 45000>>
    /\ pret.val = <<1, 2>>

DigitValue(c) == CHOOSE n \in 0..9 : DigitChars[n + 1] = c

\* The date an ISO string YYYY-MM-DD denotes.
ParseIso(str) ==
    [year |-> 1000 * DigitValue(str[1]) + 100 * DigitValue(str[2])
                + 10 * DigitValue(str[3]) + DigitValue(str[4]),
     month |-> 10 * DigitValue(str[6]) + DigitValue(str[7]),
     day |-> 10 * DigitValue(str[9]) + DigitValue(str[10])]

\* The day number of a proleptic Gregorian date (days since 1970-01-01).
DayNumber(year, month, day) ==
    LET yy == IF month <= 2 THEN year - 1 ELSE year
        era == yy \div 400
        yoe == yy - era * 400
        mp == IF month > 2 THEN month - 3 ELSE month + 9
        doy == (153 * mp + 2) \div 5 + day - 1
        doe == yoe * 365 + yoe \div 4 - yoe \div 100 + doy
    IN  era * 146097 + doe - 719468

\* The window is the whole calendar month that ends the day before the
\* first day of the target's month.
WholePreviousMonth(target, window) ==
    /\ Len(window) = 2
    /\ Len(window[1]) = 10 /\ Len(window[2]) = 10
    /\ window[1][5] = "-" /\ window[1][8] = "-"
    /\ window[2][5] = "-" /\ window[2][8] = "-"
    /\ LET first == ParseIso(window[1])
           last == ParseIso(window[2])
       IN  /\ first.day = 1
           /\ first.year = last.year /\ first.month = last.month
           /\ DayNumber(last.year, last.month, last.day) + 1
                  = DayNumber(target[1], target[2], 1)
           /\ target[2] = 1 => (first.year = target[1] - 1 /\ first.month = 12)
           /\ target[2] > 1 => (first.year = target[1] /\ first.month = target[2] - 1)
           /\ (target[1] = 2024 /\ target[2] = 3) =>
                  window = << <<"2", "0", "2", "4", "-", "0", "2", "-", "0", "1">>,
                              <<"2", "0", "2", "4", "-", "0", "2", "-", "2", "9">> >>

\* C7 as stated: for every target date, previous_month_range returns the
\* first-to-last-day window of the calendar month before the target's month.
C7_EveryTargetDate ==
    (pcall.fn = "previous_month_range" /\ pret.status # "pending") =>
        /\ pret.status = "ok"
        /\ WholePreviousMonth(pcall.args, pret.val)

\* C7 amended: the same for every target date outside January of year 1
\* (datetime.MINYEAR); there the call raises ValueError.
C7_PreviousMonth ==
    (pcall.fn = "previous_month_range" /\ pret.status # "pending") =>
        IF pcall.args[1] = MINYEAR /\ pcall.args[2] = 1
        THEN pret.status = "raised" /\ pret.exc = "ValueError"
        ELSE pret.status = "ok" /\ WholePreviousMonth(pcall.args, pret.val)

\* The window of a target on the last day of March in a leap year.
C7_Witness ==
    /\ pcall.fn = "previous_month_range" /\ pret.status = "ok"
    /\ pcall.args = <<2024, 3, 31>>
    /\ ParseIso(pret.val[2]).day = 29

(***************************************************************************)
(* try_parse_satellite_payload (app.py 52-79).  A JSON value is a tagged   *)
(* record: num (n, in thousandths), str (ok: whether float() accepts it,   *)
(* n: the value it denotes), null, huge (an integer float() overflows on), *)
(* list (l), dict (d: a function from its keys).                           *)
(***************************************************************************)
JNull == [t |-> "null"]

JNum(n) == [t |-> "num", n |-> n]

JStr(ok, n) == [t |-> "str", ok |-> ok, n |-> n]

JHuge == [t |-> "huge"]

JList(l) == [t |-> "list", l |-> l]

JDict(d) == [t |-> "dict", d |-> d]

\* obj.get(key, default)
Get(obj, key, default) == IF key \in DOMAIN obj THEN obj[key] ELSE default

\* float(v) for a value that is not None: the number, or the exception.
Float(v) ==
    CASE v.t = "num" -> [exc |-> "", n |-> v.n]
      [] v.t = "str" -> IF v.ok THEN [exc |-> "", n |-> v.n]
                        ELSE [exc |-> "ValueError", n |-> 0]
      [] v.t = "huge" -> [exc |-> "OverflowError", n |-> 0]
      [] OTHER -> [exc |-> "TypeError", n |-> 0]

\* The first conversion that fails decides, in the order ndvi, lst, precip.
FirstExc(a, b, c) ==
    IF a.exc # "" THEN a.exc ELSE IF b.exc # "" THEN b.exc ELSE c.exc

NoTriplet == [ndvi |-> 0, lst |-> 0, precip |-> 0]

\* One iteration of the loop over candidate objects (lines 66-78):
\* "skip" (continue), "ok" (return the triplet) or "raised".
TryObject(obj) ==
    LET ndvi_raw == Get(obj, "ndvi_monthly", Get(obj, "ndvi", JNull))
        lst_raw == Get(obj, "lst_monthly",
                       Get(obj, "lst", Get(obj, "surface_temperature", JNull)))
        precip_raw == Get(obj, "precip_monthly",
                          Get(obj, "precip", Get(obj, "precipitation", JNull)))
    IN  IF ndvi_raw.t = "null" \/ lst_raw.t = "null" \/ precip_raw.t = "null"
        THEN [status |-> "skip", exc |-> "", val |-> NoTriplet]
        ELSE LET e == FirstExc(Float(ndvi_raw), Float(lst_raw), Float(precip_raw))
             IN  IF e = ""
                 THEN [status |-> "ok", exc |-> "",
                       val |-> [ndvi |-> Float(ndvi_raw).n, lst |-> Float(lst_raw).n,
                                precip |-> Float(precip_raw).n]]
                 ELSE IF e \in {"TypeError", "ValueError"}
                 THEN [status |-> "skip", exc |-> "", val |-> NoTriplet]
                 ELSE [status |-> "raised", exc |-> e, val |-> NoTriplet]

\* payload["results"][0] / payload["items"][0] when it is a dict
FirstDict(v) ==
    IF v.t = "list" /\ Len(v.l) > 0 /\ v.l[1].t = "dict" THEN <<v.l[1].d>> ELSE <<>>

\* candidate_objects (lines 53-63), for a payload that is a dict
CandidateObjects(d) ==
    <<d>>
        \o (IF Get(d, "data", JNull).t = "dict" THEN <<d["data"].d>> ELSE <<>>)
        \o FirstDict(Get(d, "results", JNull))
        \o FirstDict(Get(d, "items", JNull))

\* The loop over candidate_objects from position k; "none" is return None.
RECURSIVE ParseFrom(_, _)
ParseFrom(objs, k) ==
    IF k > Len(objs) THEN [status |-> "none", exc |-> "", val |-> NoTriplet]
    ELSE LET one == TryObject(objs[k])
         IN  IF one.status = "skip" THEN ParseFrom(objs, k + 1) ELSE one

\* try_parse_satellite_payload(payload): payload.get raises AttributeError
\* unless the payload is a dict.
try_parse_satellite_payload(payload) ==
    IF payload.t # "dict"
    THEN [status |-> "raised", exc |-> "AttributeError", val |-> NoTriplet]
    ELSE ParseFrom(CandidateObjects(payload.d), 1)

(***************************************************************************)
(* fetch_satellite_data (app.py 82-119).  A text line is a sequence of     *)
(* tokens: " " (white space) or a run of other characters; a URL starts    *)
(* with its scheme token.                                                  *)
(***************************************************************************)
DEFAULT_JAXA_ENDPOINTS ==
    << <<"https://", "data.earth.jaxa.jp/api/v1/observations">>,
       <<"https://", "data.earth.jaxa.jp/api/v1/point">>,
       <<"https://", "data.earth.jaxa.jp/api/v1/timeseries/point">> >>

RECURSIVE LStrip(_)
LStrip(line) ==
    IF line # <<>> /\ Head(line) = " " THEN LStrip(Tail(line)) ELSE line

RECURSIVE RStrip(_)
RStrip(line) ==
    IF line # <<>> /\ line[Len(line)] = " "
    THEN RStrip(SubSeq(line, 1, Len(line) - 1))
    ELSE line

\* str.strip()
Strip(line) == RStrip(LStrip(line))

\* [e.strip() for e in lines if e.strip()]
RECURSIVE StripNonBlank(_)
StripNonBlank(lines) ==
    IF lines = <<>> THEN <<>>
    ELSE (IF Strip(Head(lines)) # <<>> THEN <<Strip(Head(lines))>> ELSE <<>>)
             \o StripNonBlank(Tail(lines))

\* lines 98-101: the override's non-blank lines, else the environment
\* variable JAXA_EARTH_API_URL, else the default list.
Endpoints(override_lines, env_value) ==
    IF StripNonBlank(override_lines) # <<>> THEN StripNonBlank(override_lines)
    ELSE IF Strip(env_value) # <<>> THEN <<Strip(env_value)>>
    ELSE DEFAULT_JAXA_ENDPOINTS

\* What one endpoint does with the request, as the loop body meets it:
\* exc: the exception requests.get raises ("" if it returns); status: the
\* HTTP status; json: whether the body decodes; payload: the decoded body.
\* carries describes the outcome and is not read by the code: the three
\* measurements a successful answer delivers in one of the shapes the
\* parser accepts (<<>> when the endpoint delivers none).
Response(exc, status, json, payload, carries) ==
    [exc |-> exc, status |-> status, json |-> json, payload |-> payload,
     carries |-> carries]

Nothing == <<>>

MonthlyValues == <<420, 21500, 130000>>

PlainValues == <<310, -2000, 0>>

Monthly ==
    [k \in {"ndvi_monthly", "lst_monthly", "precip_monthly"} |->
        CASE k = "ndvi_monthly" -> JNum(420)
          [] k = "lst_monthly" -> JNum(21500)
          [] OTHER -> JNum(130000)]

Plain ==
    [k \in {"ndvi", "surface_temperature", "precipitation", "station"} |->
        CASE k = "ndvi" -> JStr(TRUE, 310)
          [] k = "surface_temperature" -> JNum(-2000)
          [] k = "precipitation" -> JNum(0)
          [] OTHER -> JStr(FALSE, 0)]

BadNdvi == [Monthly EXCEPT !["ndvi_monthly"] = JStr(FALSE, 0)]

HugeLst == [Monthly EXCEPT !["lst_monthly"] = JHuge]

NullShadow ==
    [k \in {"ndvi_monthly", "ndvi", "lst", "precip"} |->
        IF k = "ndvi_monthly" THEN JNull ELSE JNum(500)]

Wrapped(key, v) == JDict([k \in {key} |-> v])

Responses ==
    << Response("MissingSchema", 0, FALSE, JNull, Nothing),
       Response("ConnectionError", 0, FALSE, JNull, Nothing),
       Response("", 404, TRUE, JDict(Monthly), Nothing),
       Response("", 500, TRUE, JDict(Monthly), Nothing),
       Response("", 200, FALSE, JNull, Nothing),
       Response("", 200, TRUE, JList(<<JDict(Monthly)>>), Nothing),
       Response("", 200, TRUE, JNull, Nothing),
       Response("", 200, TRUE, Wrapped("message", JStr(FALSE, 0)), Nothing),
       Response("", 200, TRUE, JDict(NullShadow), Nothing),
       Response("", 200, TRUE, JDict(HugeLst), Nothing),
       Response("", 200, TRUE, JDict(BadNdvi), Nothing),
       Response("", 200, TRUE,
                Wrapped("items", JList(<<JStr(FALSE, 0), JDict(Monthly)>>)), Nothing),
       Response("", 200, TRUE, JDict(Monthly), MonthlyValues),
       Response("", 200, TRUE, Wrapped("data", JDict(Plain)), PlainValues),
       Response("", 200, TRUE,
                Wrapped("results", JList(<<JDict(Plain), JNull>>)), PlainValues),
       Response("", 200, TRUE,
                JDict([k \in DOMAIN BadNdvi \cup {"items"} |->
                          IF k = "items" THEN JList(<<JDict(Monthly)>>)
                          ELSE BadNdvi[k]]),
                MonthlyValues) >>

\* requests.get raises MissingSchema, before any contact, exactly for a URL
\* without a scheme.
HasScheme(endpoint) == Head(endpoint) \in {"http://", "https://"}

MayRespond(endpoint, resp) == HasScheme(endpoint) <=> resp.exc # "MissingSchema"

ErrorEntry(kind, endpoint, detail) ==
    [kind |-> kind, endpoint |-> endpoint, detail |-> detail]

\* list(payload.keys())[:8], for payloads of at most eight keys
KeysOf(payload) == DOMAIN payload.d

Continue(errors) ==
    [outcome |-> "continue", parsed |-> NoTriplet, errors |-> errors, exc |-> ""]

LoopBodyNoCatch(endpoint, resp) ==
    IF resp.exc # ""
    THEN [outcome |-> "raise", parsed |-> NoTriplet, errors |-> <<>>,
          exc |-> resp.exc]
    ELSE IF resp.status = 404
    THEN Continue(<<ErrorEntry("404", endpoint, {"urlencode(params)"})>>)
    ELSE IF resp.status >= 400
    THEN [outcome |-> "raise", parsed |-> NoTriplet, errors |-> <<>>,
          exc |-> "HTTPError"]
    ELSE IF ~resp.json
    THEN [outcome |-> "raise", parsed |-> NoTriplet, errors |-> <<>>,
          exc |-> "JSONDecodeError"]
    ELSE LET got == try_parse_satellite_payload(resp.payload)
         IN  IF got.status = "raised"
             THEN [outcome |-> "raise", parsed |-> NoTriplet, errors |-> <<>>,
                   exc |-> got.exc]
             ELSE IF got.status = "ok"
             THEN [outcome |-> "return", parsed |-> got.val, errors |-> <<>>,
                   exc |-> ""]
             ELSE Continue(<<ErrorEntry("parse", endpoint, KeysOf(resp.payload))>>)

LoopBodySilent404(endpoint, resp) ==
    IF resp.exc # ""
    THEN Continue(<<ErrorEntry("exception", endpoint, {resp.exc})>>)
    ELSE IF resp.status = 404
    THEN Continue(<<>>)
    ELSE IF resp.status >= 400
    THEN Continue(<<ErrorEntry("exception", endpoint, {"HTTPError"})>>)
    ELSE IF ~resp.json
    THEN Continue(<<ErrorEntry("exception", endpoint, {"JSONDecodeError"})>>)
    ELSE LET got == try_parse_satellite_payload(resp.payload)
         IN  IF got.status = "raised"
             THEN Continue(<<ErrorEntry("exception", endpoint, {got.exc})>>)
             ELSE IF got.status = "ok"
             THEN [outcome |-> "return", parsed |-> got.val, errors |-> <<>>,
                   exc |-> ""]
             ELSE Continue(<<ErrorEntry("parse", endpoint, KeysOf(resp.payload))>>)

\* The loop body (lines 104-117) for one endpoint and what it answers:
\* return the parsed triplet, or append one error and go on.  Every
\* exception raised inside the try is caught by "except Exception".
LoopBody(endpoint, resp) ==
    IF resp.exc # ""
    THEN Continue(<<ErrorEntry("exception", endpoint, {resp.exc})>>)
    ELSE IF resp.status = 404
    THEN Continue(<<ErrorEntry("404", endpoint, {"urlencode(params)"})>>)
    ELSE IF resp.status >= 400
    THEN Continue(<<ErrorEntry("exception", endpoint, {"HTTPError"})>>)
    ELSE IF ~resp.json
    THEN Continue(<<ErrorEntry("exception", endpoint, {"JSONDecodeError"})>>)
    ELSE LET got == try_parse_satellite_payload(resp.payload)
         IN  IF got.status = "raised"
             THEN Continue(<<ErrorEntry("exception", endpoint, {got.exc})>>)
             ELSE IF got.status = "ok"
             THEN [outcome |-> "return", parsed |-> got.val, errors |-> <<>>,
                   exc |-> ""]
             ELSE Continue(<<ErrorEntry("parse", endpoint, KeysOf(resp.payload))>>)

\* fallback_satellite_values(lat, lon), lines 42-49
fallback_satellite_values(lat, lon) ==
    FallbackDraws(default_rng(FallbackSeed(lat, lon)))

FormDates ==
    {[year |-> 2024, month |-> 3, day |-> 1],
     [year |-> 2026, month |-> 1, day |-> 1]}

FormCoordinates == {<<35680, 139760>>, <<-33870, 151210>>}

UrlA == <<"http://", "a.example/api">>

UrlB == <<"http://", "b.example/api">>

\* endpoint_override.splitlines() for the texts the form may hold; the
\* form's initial text is the default list, one URL per line.
OverrideTexts ==
    << DEFAULT_JAXA_ENDPOINTS,
       <<>>,
       << <<" ">>, <<>> >>,
       << <<" ">> \o UrlA \o <<" ">>, <<>>, UrlB >>,
       << <<"fallback">>, UrlA, UrlA >>,
       << UrlB >> >>

\* os.environ.get("JAXA_EARTH_API_URL", "")
EnvValues ==
    << <<>>, <<" ">>, <<" ", "http://", "env.example/api", " ">> >>

FetchLabel == <<"fallback">>

FetchIdle ==
    [pc |-> "start", params |-> <<>>, endpoints |-> <<>>, idx |-> 0,
     errors |-> <<>>, tried |-> <<>>, answers |-> <<>>, exc |-> "",
     ret |-> <<>>]

InitFetch ==
    /\ req = [r \in Requests |-> Idle]
    /\ rng = [r \in Requests |-> NoGen]
    /\ pcall = NoPure /\ pret = Pending
    /\ \E d \in FormDates, c \in FormCoordinates,
          o \in 1..Len(OverrideTexts), e \in 1..Len(EnvValues) :
          fin = [kind |-> "fetch", lat |-> c[1], lon |-> c[2],
                 target_month |-> d, endpoint_override |-> OverrideTexts[o],
                 env |-> EnvValues[e]]
    /\ fst = FetchIdle

\* lines 88-103: the window, the query parameters, the endpoint list
FetchStart ==
    /\ fst.pc = "start"
    /\ LET range == previous_month_range(fin.target_month)
       IN  fst' = IF range.status = "raised"
                  THEN [fst EXCEPT !.pc = "raised", !.exc = range.exc]
                  ELSE [fst EXCEPT
                          !.pc = "loop",
                          !.params = [lat |-> fin.lat, lon |-> fin.lon,
                                      start_date |-> range.val[1],
                                      end_date |-> range.val[2],
                                      variables |->
                                        "ndvi_monthly,lst_monthly,precip_monthly"],
                          !.endpoints = Endpoints(fin.endpoint_override, fin.env),
                          !.idx = 1]
    /\ UNCHANGED <<pcall, pret, req, rng, fin>>

\* lines 104-117: one iteration of the loop over endpoints; tried and
\* answers log which endpoint was asked and what it answered.
FetchTry(k) ==
    /\ fst.pc = "loop" /\ fst.idx <= Len(fst.endpoints)
    /\ MayRespond(fst.endpoints[fst.idx], Responses[k])
    /\ LET step == LoopBody(fst.endpoints[fst.idx], Responses[k])
           asked == [fst EXCEPT !.tried = Append(@, fst.idx),
                                !.answers = Append(@, k)]
       IN  fst' = CASE step.outcome = "return" ->
                         [asked EXCEPT
                            !.pc = "returned",
                            !.ret = [sat |-> step.parsed,
                                     source |-> fst.endpoints[fst.idx],
                                     errors |-> fst.errors]]
                    [] step.outcome = "continue" ->
                         [asked EXCEPT !.errors = @ \o step.errors,
                                       !.idx = @ + 1]
                    [] OTHER ->
                         [asked EXCEPT !.pc = "raised", !.exc = step.exc]
    /\ UNCHANGED <<pcall, pret, req, rng, fin>>

\* line 119
FetchFallback ==
    /\ fst.pc = "loop" /\ fst.idx > Len(fst.endpoints)
    /\ fst' = [fst EXCEPT
                 !.pc = "returned",
                 !.ret = [sat |-> fallback_satellite_values(fin.lat, fin.lon),
                          source |-> FetchLabel,
                          errors |-> fst.errors]]
    /\ UNCHANGED <<pcall, pret, req, rng, fin>>

NextFetch ==
    \/ FetchStart
    \/ \E k \in 1..Len(Responses) : FetchTry(k)
    \/ FetchFallback

SpecFetch == InitFetch /\ [][NextFetch]_vars

(***************************************************************************)
(* Properties of the retrieval (specification SpecFetch)                   *)
(***************************************************************************)
Parseable(k) == Responses[k].carries # Nothing

AsTriplet(v) == [ndvi |-> v[1], lst |-> v[2], precip |-> v[3]]

\* The endpoints asked so far, none of which delivered the measurements.
NoneParseable == \A i \in 1..Len(fst.answers) : ~Parseable(fst.answers[i])

\* C2: fetch_satellite_data never propagates a failure: whatever the list
\* of endpoints and whatever each endpoint answers (404, another HTTP error,
\* a network exception, a body that is not JSON, JSON of an unexpected
\* shape, a parseable payload), the call never ends by raising; what it
\* returns is a complete (ndvi, lst, precip) triplet with a provenance
\* label; and it returns the coordinate-based fallback triplet, labelled
\* "fallback", exactly when no endpoint delivered a parseable payload.
C2_NeverPropagates ==
    /\ fst.pc # "raised"
    /\ fst.pc = "returned" =>
          /\ DOMAIN fst.ret.sat = {"ndvi", "lst", "precip"}
          /\ fst.ret.sat.ndvi \in Int /\ fst.ret.sat.lst \in Int
          /\ fst.ret.sat.precip \in Int
          /\ fst.ret.source # <<>>
          /\ (fst.ret.source = FetchLabel) <=> NoneParseable
          /\ NoneParseable =>
                /\ fst.ret.sat.ndvi >= 100 /\ fst.ret.sat.ndvi <= 900
                /\ fst.ret.sat.lst >= 5000 /\ fst.ret.sat.lst <= 40000
                /\ fst.ret.sat.precip >= 20000 /\ fst.ret.sat.precip <= 450000
                /\ fst.ret.sat =
                      [ndvi |-> uniform(Draw(default_rng(Abs(fin.lat) + Abs(fin.lon)), 1),
                                        100, 900),
                       lst |-> uniform(Draw(default_rng(Abs(fin.lat) + Abs(fin.lon)), 2),
                                       5000, 40000),
                       precip |-> uniform(Draw(default_rng(Abs(fin.lat) + Abs(fin.lon)), 3),
                                          20000, 450000)]

\* The call returned the fallback after an exception, an HTTP error, a 404,
\* a body that is not JSON and a payload of an unexpected shape or type.
C2_Witness ==
    /\ fst.pc = "returned" /\ fst.ret.source = FetchLabel
    /\ Len(fst.answers) = 3
    /\ \E i \in 1..3 : Responses[fst.answers[i]].exc # ""
    /\ \E i \in 1..3 : Responses[fst.answers[i]].status >= 400
    /\ \E i \in 1..3 : /\ Responses[fst.answers[i]].status = 200
                       /\ Responses[fst.answers[i]].json
                       /\ Responses[fst.answers[i]].payload.t # "dict"

March2024 == [year |-> 2024, month |-> 3, day |-> 1]

C10_InOrder ==
    /\ fst.pc # "start" =>
          /\ Len(fst.tried) <= Len(fst.endpoints)
          /\ \A i \in 1..Len(fst.tried) : fst.tried[i] = i
          /\ \A i \in 1..(Len(fst.tried) - 1) : ~Parseable(fst.answers[i])
    /\ (fst.pc = "loop" /\ fst.tried # <<>>) =>
          ~Parseable(fst.answers[Len(fst.answers)])
    /\ (fst.pc = "returned" /\ ~NoneParseable) =>
          LET n == Len(fst.tried)
          IN  /\ Parseable(fst.answers[n])
              /\ fst.ret.source = fst.endpoints[n]
              /\ fst.ret.sat = AsTriplet(Responses[fst.answers[n]].carries)
              /\ Len(fst.ret.errors) = n - 1
              /\ \A i \in 1..(n - 1) :
                    fst.ret.errors[i].endpoint = fst.endpoints[i]
    /\ (fst.pc = "returned" /\ NoneParseable) =>
          /\ fst.ret.source = FetchLabel
          /\ Len(fst.tried) = Len(fst.endpoints)
          /\ Len(fst.ret.errors) = Len(fst.endpoints)
          /\ \A i \in 1..Len(fst.endpoints) :
                fst.ret.errors[i].endpoint = fst.endpoints[i]

\* The third endpoint of three delivered the measurements after a 404 and
\* a failed parse; the two earlier endpoints are in the error list.
C10_Witness ==
    /\ fst.pc = "returned" /\ Len(fst.endpoints) = 3 /\ Len(fst.tried) = 3
    /\ Parseable(fst.answers[3])
    /\ Responses[fst.answers[1]].status = 404
    /\ fst.ret.errors[2].kind = "parse"
    /\ Len(fst.ret.errors) = 2

====
